---- MODULE Spec2Model ----
(***************************************************************************)
(* pprofdump: concurrent fetch of pprof profiles over HTTP, packaged into  *)
(* one gzipped tar archive (main.go).                                      *)
(*                                                                         *)
(* A string is a sequence of one-element tokens.  A token stands for one   *)
(* byte of the Go string; the word tokens of DefaultProfileNames stand for *)
(* a run of letters.                                                       *)
(***************************************************************************)
EXTENDS Integers, Sequences, FiniteSets, TLC

\* ------------------------------------------------------------------ bounds

\* Longest string the string specification draws.
MaxLen == 4

\* Largest number of profiles given on the command line.
MaxProfiles == 2

\* ------------------------------------------------------------ string helpers

\* The bytes the string specification draws names from.
Chars == {"a", "-", "?", "="}

\* The character class a-zA-Z0-9_- of the filename pattern (main.go:266).
AllowedChars ==
    {"a", "b", "c", "x", "0", "2", "_", "-",
     "profile", "heap", "block", "goroutine", "debug", "threadcreate"}

\* All strings over S of length at most n.
StringsUpTo(S, n) == UNION {[1..k -> S] : k \in 0..n}

\* s[from..] (empty when from > Len(s)).
Tail_(s, from) == IF from > Len(s) THEN <<>> ELSE SubSeq(s, from, Len(s))

\* Index of the first sep in s, 0 when there is none.
IndexOf(s, sep) ==
    IF \E i \in 1..Len(s) : s[i] = sep
      THEN CHOOSE i \in 1..Len(s) : s[i] = sep /\ \A j \in 1..(i-1) : s[j] # sep
      ELSE 0

\* strings.Split(s, sep) for a one-byte sep: every substring between
\* separators, n+1 pieces for n separators.
RECURSIVE Split(_, _)
Split(s, sep) ==
    LET i == IndexOf(s, sep)
    IN  IF i = 0 THEN <<s>>
        ELSE <<SubSeq(s, 1, i - 1)>> \o Split(Tail_(s, i + 1), sep)

\* strings.Join(a, sep).
RECURSIVE Join(_, _)
Join(a, sep) ==
    IF Len(a) = 0 THEN <<>>
    ELSE IF Len(a) = 1 THEN a[1]
    ELSE a[1] \o <<sep>> \o Join(Tail(a), sep)

\* ParseProfileName keeping only the piece after the FIRST "?" up to the end
\* (what a split at the first "?" alone would return).
ParseProfileNameFirstOnly(name) ==
    LET i == IndexOf(name, "?")
    IN  IF i = 0 THEN [segment |-> name, query |-> <<>>]
        ELSE [segment |-> SubSeq(name, 1, i - 1), query |-> Tail_(name, i + 1)]

\* ParseProfileName returning the whole name as segment.
ParseProfileNameNoSplit(name) == [segment |-> name, query |-> <<>>]

\* ParseProfileName (main.go:299-305): split on every "?", return the first
\* piece and, when there is more than one, the second piece.
ParseProfileName(name) ==
    LET a == Split(name, "?")
    IN  IF Len(a) = 1 THEN [segment |-> a[1], query |-> <<>>]
        ELSE [segment |-> a[1], query |-> a[2]]

\* Filename pattern replacing each disallowed byte by its own "-".
SanitizePerChar(name) ==
    [i \in 1..Len(name) |-> IF name[i] \in AllowedChars THEN name[i] ELSE "-"]

\* regexp `[^a-zA-Z0-9_-]+` ReplaceAllString(name, "-") (main.go:266): scan
\* left to right; an allowed byte is copied, a leftmost-longest run of
\* disallowed bytes is replaced by one "-".
RECURSIVE Sanitize(_)
Sanitize(name) ==
    IF Len(name) = 0 THEN <<>>
    ELSE IF name[1] \in AllowedChars THEN <<name[1]>> \o Sanitize(Tail(name))
    ELSE LET rest == Tail(name)
             \* length of the remainder of the run
             k == IF \E j \in 1..Len(rest) : rest[j] \in AllowedChars
                    THEN (CHOOSE j \in 1..Len(rest) :
                            /\ rest[j] \in AllowedChars
                            /\ \A h \in 1..(j-1) : rest[h] \notin AllowedChars) - 1
                    ELSE Len(rest)
         IN  <<"-">> \o Sanitize(Tail_(rest, k + 1))


\* ------------------------------------------------------------ program constants

\* DefaultPrefix (main.go:22).
DefaultPrefix == <<"/debug/pprof">>

\* DefaultProfileNames (main.go:25-31).
DefaultProfileNames ==
    << <<"profile">>, <<"heap">>, <<"block">>,
       <<"goroutine", "?", "debug", "=", "2">>, <<"threadcreate">> >>

\* ------------------------------------------------------------------- inputs

\* Profile specifiers a command line names: a plain one and one with a query
\* (a list may name the same one twice).
NameChoices == { <<"a">>, <<"b", "?", "x">> }

\* Values of the -profiles flag: comma-joined lists of 1..MaxProfiles
\* specifiers, and the flag's default when the bound admits it.
ProfileArgs ==
    {Join(l, ",") : l \in UNION {[1..k -> NameChoices] : k \in 1..MaxProfiles}}
    \cup (IF Len(DefaultProfileNames) <= MaxProfiles
            THEN {Join(DefaultProfileNames, ",")} ELSE {})

\* Command lines.  flags: how fs.Parse ends (nil, flag.ErrHelp for -h/-help,
\* another error for an undefined or malformed flag); narg: the number of
\* positional arguments; urlOK: whether url.Parse accepts the first one.
Args ==
    [flags : {"ok", "help", "bad"}, o : {"", "out.tar.gz"},
     profiles : ProfileArgs, v : BOOLEAN, narg : 0..2, urlOK : BOOLEAN]

\* Response bodies the server returns (the empty body included).
Bodies == { <<>>, <<"x">> }

\* ------------------------------------------------------------------- state

VARIABLES
    args,          \* os.Args[1:]
    pc,            \* position of the main goroutine
    exitCode,      \* os.Exit code, -1 while the process runs
    usagePrinted,  \* m.Usage() was printed to m.Stderr
    ProfileNames,  \* m.ProfileNames
    OutputPath,    \* m.OutputPath
    Verbose,       \* m.Verbose
    di,            \* index of the next name fetchProfiles dispatches
    task,          \* position of each fetch goroutine
    outcome,       \* how each task's http.Get ended
    req,           \* the URL each task requested
    body,          \* the response body each GET returned
    bodyClosed,    \* number of Close calls on each response body
    bodyRead,      \* whether each response body was read to EOF
    wg,            \* the sync.WaitGroup counter
    closer,        \* position of the goroutine that closes the channel
    closed,        \* results channel is closed
    cur,           \* the result the range loop holds (r)
    buf,           \* writeTarFile's buffer
    archive,       \* the tar entries written so far
    successN,      \* Run's successN
    sink,          \* the writer w of Run
    fileExists,    \* the file at OutputPath is on disk
    closeLog,      \* Close calls on tw, gw and w, in order
    runErr,        \* what Run returned
    log,           \* lines written through m.logger()
    tarErr,        \* a tw.WriteHeader or tw.Write call returned an error
    finErr,        \* the finalize step of Run that returned an error
    results,       \* every value sent on the results channel, in order
    sname,         \* string specification: the name drawn
    sstep,         \* string specification: the last function applied
    sparsed,       \* string specification: ParseProfileName(sname)
    sfile,         \* string specification: the filename made from sname
    sfile2         \* string specification: the filename made from sfile

runVars ==
    <<args, pc, exitCode, usagePrinted, ProfileNames, OutputPath, Verbose, di,
      task, outcome, req, body, bodyClosed, bodyRead, wg, closer, closed, cur,
      buf, archive, successN, sink, fileExists, closeLog, runErr, log,
      tarErr, finErr, results>>

strVars == <<sname, sstep, sparsed, sfile, sfile2>>

vars == <<runVars, strVars>>

\* The names Run hands to fetchProfiles, and the goroutines it starts for them.
N == Len(ProfileNames)
Tasks == DOMAIN task

NoURL == [path |-> <<>>, query |-> <<>>]
NoResult == [idx |-> 0, name |-> <<>>]


\* ------------------------------------------------------------------ helpers

\* path.Join(prefix, segment) for a segment without "/" or ".": the cleaned
\* path drops an empty segment (main.go:238).
PathJoin(prefix, segment) ==
    IF segment = <<>> THEN prefix ELSE prefix \o <<"/">> \o segment

\* The request URL of fetchProfile (main.go:234-239): path and raw query.
ProfileURL(name) ==
    LET p == ParseProfileName(name)
    IN  [path |-> PathJoin(DefaultPrefix, p.segment), query |-> p.query]

\* One line written through m.logger() (main.go:291).
LogLine(tag, msg) == [tag |-> tag, msg |-> msg]

\* The deferred Close calls Run has registered once w is set, in the order they
\* run at return: tw, gw, then f for a file (main.go:158,164,166).
Deferred(w) ==
    IF w = "file" THEN <<"tw", "gw", "w">>
    ELSE IF w = "stdout" THEN <<"tw", "gw">>
    ELSE <<>>

\* ParseFlags without the argument-count validation.
ParseFlagsNoArgCount(a) ==
    IF a.flags = "help" THEN
        [err |-> "ErrHelp", names |-> ProfileNames, o |-> OutputPath, v |-> Verbose]
    ELSE IF a.flags = "bad" THEN
        [err |-> "flag", names |-> ProfileNames, o |-> OutputPath, v |-> Verbose]
    ELSE
        [err |-> IF ~a.urlOK THEN "invalid URL" ELSE "nil",
         names |-> Split(a.profiles, ","), o |-> a.o, v |-> a.v]

\* ParseFlags (main.go:110-139): the error returned and the fields set.
ParseFlags(a) ==
    IF a.flags = "help" THEN
        [err |-> "ErrHelp", names |-> ProfileNames, o |-> OutputPath, v |-> Verbose]
    ELSE IF a.flags = "bad" THEN
        [err |-> "flag", names |-> ProfileNames, o |-> OutputPath, v |-> Verbose]
    ELSE
        [err |-> IF a.narg = 0 THEN "URL required"
                 ELSE IF a.narg > 1 THEN "too many arguments"
                 ELSE IF ~a.urlOK THEN "invalid URL"
                 ELSE "nil",
         names |-> Split(a.profiles, ","), o |-> a.o, v |-> a.v]

\* ------------------------------------------------------------------- Init

\* NewMain (main.go:73-82) and the process before main parses its flags.
InitRun ==
    /\ pc = "ParseFlags"
    /\ exitCode = -1
    /\ usagePrinted = FALSE
    /\ ProfileNames = DefaultProfileNames
    /\ OutputPath = ""
    /\ Verbose = FALSE
    /\ di = 1
    /\ task = <<>>
    /\ outcome = <<>>
    /\ req = <<>>
    /\ body = <<>>
    /\ bodyClosed = <<>>
    /\ bodyRead = <<>>
    /\ wg = 0
    /\ closer = "none"
    /\ closed = FALSE
    /\ cur = NoResult
    /\ buf = <<>>
    /\ archive = <<>>
    /\ successN = 0
    /\ sink = "none"
    /\ fileExists = FALSE
    /\ closeLog = <<>>
    /\ runErr = "none"
    /\ log = <<>>
    /\ tarErr = FALSE
    /\ finErr = "none"
    /\ results = <<>>

InitStrIdle ==
    /\ sname = <<>>
    /\ sstep = "idle"
    /\ sparsed = [segment |-> <<>>, query |-> <<>>]
    /\ sfile = <<>>
    /\ sfile2 = <<>>

Init ==
    /\ args \in Args
    /\ InitRun
    /\ InitStrIdle

\* ------------------------------------------------------------------ main

\* main (main.go:33-43): parse the flags; flag.ErrHelp prints the usage and
\* exits 2, any other error is printed and exits 1, otherwise Run starts
\* (main.go:142-147: the channel is made and fetchProfiles is entered).
MainParseFlags ==
    /\ pc = "ParseFlags"
    /\ LET r == ParseFlags(args)
           n == Len(r.names)
       IN  /\ ProfileNames' = r.names
           /\ OutputPath' = r.o
           /\ Verbose' = r.v
           /\ IF r.err = "ErrHelp" THEN
                  /\ usagePrinted' = TRUE
                  /\ exitCode' = 2
                  /\ pc' = "exited"
                  /\ UNCHANGED <<task, outcome, req, body, bodyClosed, bodyRead>>
              ELSE IF r.err # "nil" THEN
                  /\ exitCode' = 1
                  /\ pc' = "exited"
                  /\ UNCHANGED <<usagePrinted, task, outcome, req, body,
                                 bodyClosed, bodyRead>>
              ELSE
                  /\ pc' = "fetchProfiles"
                  /\ task' = [i \in 1..n |-> "idle"]
                  /\ outcome' = [i \in 1..n |-> "none"]
                  /\ req' = [i \in 1..n |-> NoURL]
                  /\ body' = [i \in 1..n |-> <<>>]
                  /\ bodyClosed' = [i \in 1..n |-> 0]
                  /\ bodyRead' = [i \in 1..n |-> FALSE]
                  /\ UNCHANGED <<usagePrinted, exitCode>>
    /\ UNCHANGED <<args, di, wg, closer, closed, cur, buf, archive, successN,
                   sink, fileExists, closeLog, runErr, log, tarErr,
                   finErr, results, strVars>>

\* main (main.go:45-50): Run returned; an error is printed and exits 1,
\* otherwise main returns and the process exits 0.
MainExit ==
    /\ pc = "returned"
    /\ exitCode' = IF runErr # "nil" THEN 1 ELSE 0
    /\ pc' = "exited"
    /\ UNCHANGED <<args, usagePrinted, ProfileNames, OutputPath, Verbose, di,
                   task, outcome, req, body, bodyClosed, bodyRead, wg, closer,
                   closed, cur, buf, archive, successN, sink, fileExists,
                   closeLog, runErr, log, tarErr,
                   finErr, results, strVars>>

\* ------------------------------------------------------- fetchProfiles

\* A turn of the loop that starts the goroutine without the verbose line.
DispatchNoLog ==
    /\ pc = "fetchProfiles"
    /\ di <= N
    /\ wg' = wg + 1
    /\ task' = [task EXCEPT ![di] = "ready"]
    /\ di' = di + 1
    /\ UNCHANGED <<args, pc, exitCode, usagePrinted, ProfileNames, OutputPath,
                   Verbose, outcome, req, body, bodyClosed, bodyRead, closer,
                   closed, cur, buf, archive, successN, sink, fileExists,
                   closeLog, runErr, log, tarErr, finErr, results, strVars>>

\* fetchProfiles, one turn of the loop (main.go:211-223): log the start when
\* verbose, wg.Add(1), start the goroutine.
Dispatch ==
    /\ pc = "fetchProfiles"
    /\ di <= N
    /\ log' = IF Verbose
                THEN Append(log, LogLine(ParseProfileName(ProfileNames[di]).segment,
                                         "fetching"))
                ELSE log
    /\ wg' = wg + 1
    /\ task' = [task EXCEPT ![di] = "ready"]
    /\ di' = di + 1
    /\ UNCHANGED <<args, pc, exitCode, usagePrinted, ProfileNames, OutputPath,
                   Verbose, outcome, req, body, bodyClosed, bodyRead, closer,
                   closed, cur, buf, archive, successN, sink, fileExists,
                   closeLog, runErr, tarErr,
                   finErr, results, strVars>>

\* fetchProfiles, after the loop (main.go:225-228): start the goroutine that
\* waits and closes; fetchProfiles returns to Run.
SpawnCloser ==
    /\ pc = "fetchProfiles"
    /\ di > N
    /\ closer' = "wait"
    /\ pc' = "open"
    /\ UNCHANGED <<args, exitCode, usagePrinted, ProfileNames, OutputPath,
                   Verbose, di, task, outcome, req, body, bodyClosed, bodyRead,
                   wg, closed, cur, buf, archive, successN, sink, fileExists,
                   closeLog, runErr, log, tarErr,
                   finErr, results, strVars>>

\* The closer closing the channel at once, without the wait.
CloserNoWait ==
    /\ pc # "exited"
    /\ closer = "wait"
    /\ closed' = TRUE
    /\ closer' = "done"
    /\ UNCHANGED <<args, pc, exitCode, usagePrinted, ProfileNames, OutputPath,
                   Verbose, di, task, outcome, req, body, bodyClosed, bodyRead,
                   wg, cur, buf, archive, successN, sink, fileExists, closeLog,
                   runErr, log, tarErr,
                   finErr, results, strVars>>

\* The closer goroutine (main.go:225-228): wg.Wait() returns once the counter
\* is zero, then close(results).
CloserClose ==
    /\ pc # "exited"
    /\ closer = "wait"
    /\ wg = 0
    /\ closed' = TRUE
    /\ closer' = "done"
    /\ UNCHANGED <<args, pc, exitCode, usagePrinted, ProfileNames, OutputPath,
                   Verbose, di, task, outcome, req, body, bodyClosed, bodyRead,
                   wg, cur, buf, archive, successN, sink, fileExists, closeLog,
                   runErr, log, tarErr,
                   finErr, results, strVars>>

\* ---------------------------------------------------------- fetchProfile

\* fetchProfile up to the request (main.go:232-242): parse the name, build
\* the URL, issue the GET.
TaskGet(i) ==
    /\ pc # "exited"
    /\ task[i] = "ready"
    /\ req' = [req EXCEPT ![i] = ProfileURL(ProfileNames[i])]
    /\ task' = [task EXCEPT ![i] = "get"]
    /\ UNCHANGED <<args, pc, exitCode, usagePrinted, ProfileNames, OutputPath,
                   Verbose, di, outcome, body, bodyClosed, bodyRead, wg, closer,
                   closed, cur, buf, archive, successN, sink, fileExists,
                   closeLog, runErr, log, tarErr,
                   finErr, results, strVars>>

\* fetchProfile after http.Get returns (main.go:242-253): a transport error
\* is logged; a status other than 200 is logged and the body closed unread
\* (its content is never looked at); on 200 the task goes on to send the
\* result.
GetReturn(i) ==
    /\ pc # "exited"
    /\ task[i] = "get"
    /\ \/ /\ outcome' = [outcome EXCEPT ![i] = "neterr"]
          /\ log' = Append(log, LogLine(ParseProfileName(ProfileNames[i]).segment,
                                        "error"))
          /\ task' = [task EXCEPT ![i] = "deferred"]
          /\ UNCHANGED <<body, bodyClosed>>
       \/ /\ outcome' = [outcome EXCEPT ![i] = "status"]
          /\ log' = Append(log, LogLine(ParseProfileName(ProfileNames[i]).segment,
                                        "error: status"))
          /\ bodyClosed' = [bodyClosed EXCEPT ![i] = @ + 1]
          /\ task' = [task EXCEPT ![i] = "deferred"]
          /\ UNCHANGED body
       \/ \E b \in Bodies :
             /\ outcome' = [outcome EXCEPT ![i] = "ok"]
             /\ body' = [body EXCEPT ![i] = b]
             /\ task' = [task EXCEPT ![i] = "send"]
             /\ UNCHANGED <<log, bodyClosed>>
    /\ UNCHANGED <<args, pc, exitCode, usagePrinted, ProfileNames, OutputPath,
                   Verbose, di, req, bodyRead, wg, closer, closed, cur, buf,
                   archive, successN, sink, fileExists, closeLog, runErr, tarErr,
                   finErr, results, strVars>>

\* A fetch goroutine ending without its wg.Done().
TaskDoneNoSignal(i) ==
    /\ pc # "exited"
    /\ task[i] = "deferred"
    /\ task' = [task EXCEPT ![i] = "done"]
    /\ UNCHANGED <<args, pc, exitCode, usagePrinted, ProfileNames, OutputPath,
                   Verbose, di, outcome, req, body, bodyClosed, bodyRead, wg,
                   closer, closed, cur, buf, archive, successN, sink,
                   fileExists, closeLog, runErr, log, tarErr, finErr, results,
                   strVars>>

\* The deferred wg.Done() of a fetch goroutine (main.go:220).
TaskDone(i) ==
    /\ pc # "exited"
    /\ task[i] = "deferred"
    /\ wg' = wg - 1
    /\ task' = [task EXCEPT ![i] = "done"]
    /\ UNCHANGED <<args, pc, exitCode, usagePrinted, ProfileNames, OutputPath,
                   Verbose, di, outcome, req, body, bodyClosed, bodyRead,
                   closer, closed, cur, buf, archive, successN, sink,
                   fileExists, closeLog, runErr, log, tarErr,
                   finErr, results, strVars>>


\* ------------------------------------------------------------------- Run

\* A return statement of Run: the deferred Close calls run in LIFO order
\* (main.go:158,164,166), then Run hands err to main.
ReturnRun(err, w, calls) ==
    /\ closeLog' = closeLog \o calls \o Deferred(w)
    /\ runErr' = err
    /\ pc' = "returned"

\* Run, determining the output writer (main.go:149-166): m.Stdout when no
\* path is given, else os.Create, whose failure returns; then the gzip and
\* tar writers are made and their Close deferred.
OpenOutput ==
    /\ pc = "open"
    /\ IF OutputPath = "" THEN
           /\ sink' = "stdout"
           /\ pc' = "drain"
           /\ UNCHANGED <<fileExists, closeLog, runErr>>
       ELSE
           \E ok \in BOOLEAN :
               IF ok THEN
                   /\ sink' = "file"
                   /\ fileExists' = TRUE
                   /\ pc' = "drain"
                   /\ UNCHANGED <<closeLog, runErr>>
               ELSE
                   /\ sink' = sink
                   /\ ReturnRun("create", "none", <<>>)
                   /\ UNCHANGED fileExists
    /\ UNCHANGED <<args, exitCode, usagePrinted, ProfileNames, OutputPath,
                   Verbose, di, task, outcome, req, body, bodyClosed, bodyRead,
                   wg, closer, closed, cur, buf, archive, successN, log, tarErr,
                   finErr, results, strVars>>

\* The result carrying only the segment of the specifier.
RecvSegmentOnly(i) ==
    /\ pc = "drain"
    /\ ~closed
    /\ task[i] = "send"
    /\ cur' = [idx |-> i, name |-> ParseProfileName(ProfileNames[i]).segment]
    /\ task' = [task EXCEPT ![i] = "deferred"]
    /\ results' = Append(results, cur')
    /\ pc' = "readAll"
    /\ UNCHANGED <<args, exitCode, usagePrinted, ProfileNames, OutputPath,
                   Verbose, di, outcome, req, body, bodyClosed, bodyRead, wg,
                   closer, closed, buf, archive, successN, sink, fileExists,
                   closeLog, runErr, log, tarErr, finErr, strVars>>

\* A result taken off the channel while the previous entry's body is still
\* to be written.
RecvWhileWriting(i) ==
    /\ pc \in {"drain", "writeBody"}
    /\ ~closed
    /\ task[i] = "send"
    /\ cur' = [idx |-> i, name |-> ProfileNames[i]]
    /\ task' = [task EXCEPT ![i] = "deferred"]
    /\ results' = Append(results, cur')
    /\ pc' = "readAll"
    /\ UNCHANGED <<args, exitCode, usagePrinted, ProfileNames, OutputPath,
                   Verbose, di, outcome, req, body, bodyClosed, bodyRead, wg,
                   closer, closed, buf, archive, successN, sink, fileExists,
                   closeLog, runErr, log, tarErr, finErr, strVars>>

\* The range loop receiving r from task i (main.go:170) as the task's send
\* completes (main.go:253): the channel is unbuffered, so both move together.
Recv(i) ==
    /\ pc = "drain"
    /\ ~closed
    /\ task[i] = "send"
    /\ cur' = [idx |-> i, name |-> ProfileNames[i]]
    /\ task' = [task EXCEPT ![i] = "deferred"]
    /\ results' = Append(results, cur')
    /\ pc' = "readAll"
    /\ UNCHANGED <<args, exitCode, usagePrinted, ProfileNames, OutputPath,
                   Verbose, di, outcome, req, body, bodyClosed, bodyRead, wg,
                   closer, closed, buf, archive, successN, sink, fileExists,
                   closeLog, runErr, log, tarErr, finErr, strVars>>

\* The range loop giving up on the channel before it is closed.
DrainNoWait ==
    /\ pc = "drain"
    /\ pc' = "twClose"
    /\ UNCHANGED <<args, exitCode, usagePrinted, ProfileNames, OutputPath,
                   Verbose, di, task, outcome, req, body, bodyClosed, bodyRead,
                   wg, closer, closed, cur, buf, archive, successN, sink,
                   fileExists, closeLog, runErr, log, tarErr, finErr, results,
                   strVars>>

\* The range loop ending on the closed channel (main.go:170,176).
DrainClosed ==
    /\ pc = "drain"
    /\ closed
    /\ pc' = "twClose"
    /\ UNCHANGED <<args, exitCode, usagePrinted, ProfileNames, OutputPath,
                   Verbose, di, task, outcome, req, body, bodyClosed, bodyRead,
                   wg, closer, closed, cur, buf, archive, successN, sink,
                   fileExists, closeLog, runErr, log, tarErr,
                   finErr, results, strVars>>

\* ioutil.ReadAll whose error ends the drain loop.
ReadAllFatal ==
    /\ pc = "readAll"
    /\ \E ok \in BOOLEAN :
        IF ok THEN
            /\ buf' = body[cur.idx]
            /\ bodyRead' = [bodyRead EXCEPT ![cur.idx] = TRUE]
            /\ pc' = "writeHeader"
            /\ UNCHANGED log
        ELSE
            /\ log' = Append(log, LogLine(cur.name, "archive failed"))
            /\ pc' = "twClose"
            /\ UNCHANGED <<buf, bodyRead>>
    /\ UNCHANGED <<args, exitCode, usagePrinted, ProfileNames, OutputPath,
                   Verbose, di, task, outcome, req, body, bodyClosed, wg,
                   closer, closed, cur, archive, successN, sink, fileExists,
                   closeLog, runErr, tarErr, finErr, results, strVars>>

\* writeTarFile, ioutil.ReadAll (main.go:260-263); on an error Run logs it
\* and takes the next result (main.go:171-172).
ReadAll ==
    /\ pc = "readAll"
    /\ \E ok \in BOOLEAN :
        IF ok THEN
            /\ buf' = body[cur.idx]
            /\ bodyRead' = [bodyRead EXCEPT ![cur.idx] = TRUE]
            /\ pc' = "writeHeader"
            /\ UNCHANGED log
        ELSE
            /\ log' = Append(log, LogLine(cur.name, "archive failed"))
            /\ pc' = "drain"
            /\ UNCHANGED <<buf, bodyRead>>
    /\ UNCHANGED <<args, exitCode, usagePrinted, ProfileNames, OutputPath,
                   Verbose, di, task, outcome, req, body, bodyClosed, wg,
                   closer, closed, cur, archive, successN, sink, fileExists,
                   closeLog, runErr, tarErr,
                   finErr, results, strVars>>

\* The tar header named by the raw specifier, the pattern not applied.
TarHeaderRawName(name, b) ==
    [of |-> cur.idx, name |-> name, mode |-> "0600", size |-> Len(b),
     data |-> <<>>, complete |-> FALSE]

\* The tar header recording one byte more than the buffer holds.
TarHeaderPadded(name, b) ==
    [of |-> cur.idx, name |-> Sanitize(name), mode |-> "0600",
     size |-> Len(b) + 1, data |-> <<>>, complete |-> FALSE]

\* The tar header of writeTarFile (main.go:266-273).
TarHeader(name, b) ==
    [of |-> cur.idx, name |-> Sanitize(name), mode |-> "0600", size |-> Len(b),
     data |-> <<>>, complete |-> FALSE]

\* The results a call on the tar writer can have: archive/tar keeps its first
\* write error and returns it from every later WriteHeader, Write and Close.
TwOutcomes == IF tarErr THEN {FALSE} ELSE BOOLEAN

\* writeTarFile, the sanitized filename and tw.WriteHeader (main.go:265-275).
WriteHeader ==
    /\ pc = "writeHeader"
    /\ \E ok \in TwOutcomes :
        IF ok THEN
            /\ archive' = Append(archive, TarHeader(cur.name, buf))
            /\ pc' = "writeBody"
            /\ UNCHANGED <<log, tarErr>>
        ELSE
            /\ log' = Append(log, LogLine(cur.name, "archive failed"))
            /\ tarErr' = TRUE
            /\ pc' = "drain"
            /\ UNCHANGED archive
    /\ UNCHANGED <<args, exitCode, usagePrinted, ProfileNames, OutputPath,
                   Verbose, di, task, outcome, req, body, bodyClosed, bodyRead,
                   wg, closer, closed, cur, buf, successN, sink, fileExists,
                   closeLog, runErr,
                   finErr, results, strVars>>

\* Run counting the result whether or not tw.Write succeeded.
WriteBodyCountsFailure ==
    /\ pc = "writeBody"
    /\ \E ok \in TwOutcomes :
        IF ok THEN
            /\ archive' = [archive EXCEPT ![Len(archive)] =
                              [@ EXCEPT !.data = buf, !.complete = TRUE]]
            /\ log' = IF Verbose
                        THEN Append(log, LogLine(ParseProfileName(cur.name).segment, "OK"))
                        ELSE log
            /\ UNCHANGED tarErr
        ELSE
            /\ log' = Append(log, LogLine(cur.name, "archive failed"))
            /\ tarErr' = TRUE
            /\ UNCHANGED archive
    /\ successN' = successN + 1
    /\ pc' = "drain"
    /\ UNCHANGED <<args, exitCode, usagePrinted, ProfileNames, OutputPath,
                   Verbose, di, task, outcome, req, body, bodyClosed, bodyRead,
                   wg, closer, closed, cur, buf, sink, fileExists, closeLog,
                   runErr, finErr, results, strVars>>

\* writeTarFile, tw.Write of the buffer and the verbose OK line
\* (main.go:277-288), and Run counting the success (main.go:173-175).
WriteBody ==
    /\ pc = "writeBody"
    /\ \E ok \in TwOutcomes :
        IF ok THEN
            /\ archive' = [archive EXCEPT ![Len(archive)] =
                              [@ EXCEPT !.data = buf, !.complete = TRUE]]
            /\ log' = IF Verbose
                        THEN Append(log, LogLine(ParseProfileName(cur.name).segment, "OK"))
                        ELSE log
            /\ successN' = successN + 1
            /\ UNCHANGED tarErr
        ELSE
            /\ log' = Append(log, LogLine(cur.name, "archive failed"))
            /\ tarErr' = TRUE
            /\ UNCHANGED <<archive, successN>>
    /\ pc' = "drain"
    /\ UNCHANGED <<args, exitCode, usagePrinted, ProfileNames, OutputPath,
                   Verbose, di, task, outcome, req, body, bodyClosed, bodyRead,
                   wg, closer, closed, cur, buf, sink, fileExists, closeLog,
                   runErr,
                   finErr, results, strVars>>

\* Run closing the tar writer and going on to the gzip writer whatever
\* tw.Close returned.
TwCloseIgnoreError ==
    /\ pc = "twClose"
    /\ \E ok \in TwOutcomes :
        /\ finErr' = IF ok THEN finErr ELSE "tw"
        /\ closeLog' = Append(closeLog, "tw")
        /\ pc' = "gwClose"
    /\ UNCHANGED <<args, exitCode, usagePrinted, ProfileNames, OutputPath,
                   Verbose, di, task, outcome, req, body, bodyClosed, bodyRead,
                   wg, closer, closed, cur, buf, archive, successN, sink,
                   fileExists, log, tarErr, runErr, results, strVars>>

\* Run closing the tar writer (main.go:179-180).
TwClose ==
    /\ pc = "twClose"
    /\ \E ok \in TwOutcomes :
        IF ok THEN
            /\ closeLog' = Append(closeLog, "tw")
            /\ pc' = "gwClose"
            /\ UNCHANGED <<runErr, finErr>>
        ELSE
            /\ finErr' = "tw"
            /\ ReturnRun("tw", sink, <<"tw">>)
    /\ UNCHANGED <<args, exitCode, usagePrinted, ProfileNames, OutputPath,
                   Verbose, di, task, outcome, req, body, bodyClosed, bodyRead,
                   wg, closer, closed, cur, buf, archive, successN, sink,
                   fileExists, log, tarErr, results, strVars>>

\* Run closing the gzip writer (main.go:181-183).
GwClose ==
    /\ pc = "gwClose"
    /\ \E ok \in BOOLEAN :
        IF ok THEN
            /\ closeLog' = Append(closeLog, "gw")
            /\ pc' = "wClose"
            /\ UNCHANGED <<runErr, finErr>>
        ELSE
            /\ finErr' = "gw"
            /\ ReturnRun("gw", sink, <<"gw">>)
    /\ UNCHANGED <<args, exitCode, usagePrinted, ProfileNames, OutputPath,
                   Verbose, di, task, outcome, req, body, bodyClosed, bodyRead,
                   wg, closer, closed, cur, buf, archive, successN, sink,
                   fileExists, log, tarErr, results, strVars>>

\* Run closing the writer w when it is an io.Closer (main.go:185-190); both
\* the file and os.Stdout (NewMain, main.go:79) are.
WClose ==
    /\ pc = "wClose"
    /\ \E ok \in BOOLEAN :
        IF ok THEN
            /\ closeLog' = Append(closeLog, "w")
            /\ pc' = "check"
            /\ UNCHANGED <<runErr, finErr>>
        ELSE
            /\ finErr' = "w"
            /\ ReturnRun("w", sink, <<"w">>)
    /\ UNCHANGED <<args, exitCode, usagePrinted, ProfileNames, OutputPath,
                   Verbose, di, task, outcome, req, body, bodyClosed, bodyRead,
                   wg, closer, closed, cur, buf, archive, successN, sink,
                   fileExists, log, tarErr, results, strVars>>

\* Run deciding the outcome, failing unless every profile was written.
CheckSuccessAllRequired ==
    /\ pc = "check"
    /\ IF successN < N THEN
           /\ fileExists' = IF OutputPath # "" THEN FALSE ELSE fileExists
           /\ ReturnRun("no profiles written", sink, <<>>)
           /\ UNCHANGED log
       ELSE
           /\ log' = IF Verbose
                       THEN Append(log, LogLine(<<>>, "profiles successfully written"))
                       ELSE log
           /\ ReturnRun("nil", sink, <<>>)
           /\ UNCHANGED fileExists
    /\ UNCHANGED <<args, exitCode, usagePrinted, ProfileNames, OutputPath,
                   Verbose, di, task, outcome, req, body, bodyClosed, bodyRead,
                   wg, closer, closed, cur, buf, archive, successN, sink,
                   tarErr,
                   finErr, results, strVars>>

\* Run deciding the outcome, leaving the output file in place on no success.
CheckSuccessNoRemove ==
    /\ pc = "check"
    /\ IF successN = 0 THEN
           /\ ReturnRun("no profiles written", sink, <<>>)
           /\ UNCHANGED log
       ELSE
           /\ log' = IF Verbose
                       THEN Append(log, LogLine(<<>>, "profiles successfully written"))
                       ELSE log
           /\ ReturnRun("nil", sink, <<>>)
    /\ UNCHANGED <<args, exitCode, usagePrinted, ProfileNames, OutputPath,
                   Verbose, di, task, outcome, req, body, bodyClosed, bodyRead,
                   wg, closer, closed, cur, buf, archive, successN, sink,
                   fileExists, tarErr,
                   finErr, results, strVars>>

\* Run deciding the outcome (main.go:192-205): no success removes the output
\* file and returns "no profiles written"; otherwise the count is logged when
\* verbose and Run returns nil.  (os.Remove's own error is ignored by the
\* code; the removal is taken to succeed.)
CheckSuccess ==
    /\ pc = "check"
    /\ IF successN = 0 THEN
           /\ fileExists' = IF OutputPath # "" THEN FALSE ELSE fileExists
           /\ ReturnRun("no profiles written", sink, <<>>)
           /\ UNCHANGED log
       ELSE
           /\ log' = IF Verbose
                       THEN Append(log, LogLine(<<>>, "profiles successfully written"))
                       ELSE log
           /\ ReturnRun("nil", sink, <<>>)
           /\ UNCHANGED fileExists
    /\ UNCHANGED <<args, exitCode, usagePrinted, ProfileNames, OutputPath,
                   Verbose, di, task, outcome, req, body, bodyClosed, bodyRead,
                   wg, closer, closed, cur, buf, archive, successN, sink,
                   tarErr,
                   finErr, results, strVars>>

\* ------------------------------------------------------------ specification

Next ==
    \/ MainParseFlags
    \/ Dispatch
    \/ SpawnCloser
    \/ CloserClose
    \/ \E i \in Tasks : TaskGet(i)
    \/ \E i \in Tasks : GetReturn(i)
    \/ \E i \in Tasks : TaskDone(i)
    \/ OpenOutput
    \/ \E i \in Tasks : Recv(i)
    \/ DrainClosed
    \/ ReadAll
    \/ WriteHeader
    \/ WriteBody
    \/ TwClose
    \/ GwClose
    \/ WClose
    \/ CheckSuccess
    \/ MainExit

Spec == Init /\ [][Next]_vars


\* ------------------------------------------------- fair specification
\* The runs in which ParseFlags succeeds and main calls Run, under a fair
\* scheduler: the main goroutine, every fetch goroutine and the closer each
\* take their next step when it stays possible, and every http.Get returns.

InitLive ==
    /\ Init
    /\ args.flags = "ok"
    /\ args.narg = 1
    /\ args.urlOK

\* The steps of the main goroutine.
MainStep ==
    \/ MainParseFlags
    \/ Dispatch
    \/ SpawnCloser
    \/ OpenOutput
    \/ \E i \in Tasks : Recv(i)
    \/ DrainClosed
    \/ ReadAll
    \/ WriteHeader
    \/ WriteBody
    \/ TwClose
    \/ GwClose
    \/ WClose
    \/ CheckSuccess
    \/ MainExit

Fairness ==
    /\ WF_vars(MainStep)
    /\ WF_vars(CloserClose)
    /\ \A i \in 1..MaxProfiles :
          /\ WF_vars(i \in Tasks /\ TaskGet(i))
          /\ WF_vars(i \in Tasks /\ GetReturn(i))
          /\ WF_vars(i \in Tasks /\ TaskDone(i))

SpecLive == InitLive /\ [][Next]_vars /\ Fairness

\* ------------------------------------------------- string specification
\* ParseProfileName and the filename pattern applied to every string over
\* Chars of length at most MaxLen.

InitStr ==
    /\ args = [flags |-> "ok", o |-> "", profiles |-> <<"a">>, v |-> FALSE,
               narg |-> 1, urlOK |-> TRUE]
    /\ InitRun
    /\ sname \in StringsUpTo(Chars, MaxLen)
    /\ sstep = "new"
    /\ sparsed = [segment |-> <<>>, query |-> <<>>]
    /\ sfile = <<>>
    /\ sfile2 = <<>>

\* fetchProfile splitting the name (main.go:234).
StrParse ==
    /\ sstep = "new"
    /\ sparsed' = ParseProfileName(sname)
    /\ sstep' = "parsed"
    /\ UNCHANGED <<runVars, sname, sfile, sfile2>>

\* writeTarFile making the filename (main.go:266).
StrSanitize ==
    /\ sstep = "parsed"
    /\ sfile' = Sanitize(sname)
    /\ sstep' = "sanitized"
    /\ UNCHANGED <<runVars, sname, sparsed, sfile2>>

\* The filename pattern applied to a filename it produced.
StrResanitize ==
    /\ sstep = "sanitized"
    /\ sfile2' = Sanitize(sfile)
    /\ sstep' = "resanitized"
    /\ UNCHANGED <<runVars, sname, sparsed, sfile>>

NextStr ==
    \/ StrParse
    \/ StrSanitize
    \/ StrResanitize

SpecStr == InitStr /\ [][NextStr]_vars

\* ------------------------------------------------------------------ claims

\* Position of the first "?" of s (0 when s has none).
FirstMark(s) ==
    IF \E i \in 1..Len(s) : s[i] = "?"
      THEN CHOOSE i \in 1..Len(s) : s[i] = "?" /\ \A j \in 1..Len(s) : s[j] = "?" => i <= j
      ELSE 0

\* C7: for every specifier containing a "?", ParseProfileName returns the
\* substring before the first "?" as segment and everything after the first
\* "?" as query, verbatim, further "?" characters included.
C7_QueryIsEverythingAfterFirstMark ==
    (sstep # "new" /\ FirstMark(sname) > 0) =>
        /\ sparsed.segment = SubSeq(sname, 1, FirstMark(sname) - 1)
        /\ sparsed.query = SubSeq(sname, FirstMark(sname) + 1, Len(sname))

\* The positions of name the pattern keeps a byte for: every allowed byte and
\* the first byte of every maximal run of disallowed bytes.
KeptPositions(name) ==
    {p \in 1..Len(name) :
        \/ name[p] \in AllowedChars
        \/ p = 1
        \/ name[p - 1] \in AllowedChars}

\* name with every maximal run of disallowed bytes replaced by one "-".
CollapseRuns(name) ==
    LET K == KeptPositions(name)
        nth(k) == CHOOSE p \in K : Cardinality({q \in K : q <= p}) = k
    IN  [k \in 1..Cardinality(K) |->
            IF name[nth(k)] \in AllowedChars THEN name[nth(k)] ELSE "-"]

\* C8: the sanitized filename holds only bytes of [A-Za-z0-9_-], every maximal
\* run of disallowed bytes of the name is replaced by exactly one "-" (allowed
\* bytes are kept as they are), and sanitizing the result again changes nothing.
C8_SanitizeCollapsesAndIsIdempotent ==
    /\ sstep \in {"sanitized", "resanitized"} =>
        /\ \A i \in 1..Len(sfile) : sfile[i] \in AllowedChars
        /\ sfile = CollapseRuns(sname)
    /\ sstep = "resanitized" => sfile2 = sfile

\* C8 witness: a name with a run of two disallowed bytes was sanitized, twice.
C8_Witness ==
    /\ sstep = "resanitized"
    /\ sname = <<"a", "?", "=", "a">>
    /\ sfile = <<"a", "-", "a">>
    /\ sfile2 = <<"a", "-", "a">>

\* ---------------------------------------------------------- claims on Run

\* Run has returned to main.
RunReturned == runErr # "none"

\* Task i's GET returned 200 and its body was read to the end.
Fetched(i) == outcome[i] = "ok" /\ bodyRead[i]

\* Task i's result was received by the range loop of Run.
Received(i) == outcome[i] = "ok" /\ task[i] \in {"deferred", "done"}

\* Task i's fetch failed, or its body could not be read.
Failed(i) ==
    \/ outcome[i] \in {"neterr", "status"}
    \/ outcome[i] = "ok" /\ task[i] = "done" /\ ~bodyRead[i]

\* The output sink opened and neither an archive write nor a finalize step
\* reported an error.
SinkClean == runErr \notin {"create", "tw", "gw", "w"} /\ ~tarErr

\* The segment of a specifier: what precedes its first "?".
SegmentOf(name) ==
    IF FirstMark(name) = 0 THEN name ELSE SubSeq(name, 1, FirstMark(name) - 1)

\* Number of Close calls on layer c.
CloseCount(c) == Cardinality({k \in 1..Len(closeLog) : closeLog[k] = c})

C3_AllFailNoFileRemains ==
    (RunReturned /\ \A i \in Tasks : Failed(i)) =>
        /\ runErr # "nil"
        /\ OutputPath # "" => ~fileExists

\* C3 (amended): if every requested profile fails, Run returns an error; when
\* the sink opened and the three finalize steps succeeded the error is "no
\* profiles written" and an output file, if any, has been removed; after a
\* failed finalize step Run returns that step's error and the created file
\* is left on disk.
C3_AllFailCleanRunRemovesFile ==
    (RunReturned /\ \A i \in Tasks : Failed(i)) =>
        /\ runErr # "nil"
        /\ runErr \notin {"create", "tw", "gw", "w"} =>
            /\ runErr = "no profiles written"
            /\ OutputPath # "" => ~fileExists
        /\ (runErr \in {"tw", "gw", "w"} /\ OutputPath # "") => fileExists

\* C3 witness: both profiles failed, differently; the created file is gone.
C3_Witness ==
    /\ RunReturned
    /\ N = 2
    /\ outcome[1] = "status" /\ outcome[2] = "neterr"
    /\ OutputPath # ""
    /\ sink = "file"
    /\ runErr = "no profiles written"
    /\ ~fileExists

\* C4: whenever the results channel is closed, every launched fetch task has
\* terminated (its wg.Done has run), so none is still to send a result.
C4_ClosedOnlyAfterAllTasksDone ==
    closed => \A i \in Tasks : task[i] = "done"

\* C4 witness: the channel is closed after one task sent a result and another
\* failed.
C4_Witness ==
    /\ closed
    /\ N = 2
    /\ \E i, j \in Tasks : outcome[i] = "ok" /\ outcome[j] = "neterr"

\* C5: when creating the output file fails, no fetch task has been dispatched
\* and no GET has been issued at the moment Run returns the error.
C5_NoFetchBeforeCreateFailure ==
    runErr = "create" => \A i \in Tasks : task[i] = "idle" /\ req[i] = NoURL

\* The command line is a usage or flag-parse failure as C6 lists them.
UsageFailure == args.flags # "ok" \/ args.narg # 1

C9_ReceivedBodyClosedOnce ==
    RunReturned => \A i \in Tasks : Received(i) => bodyClosed[i] = 1

\* C10: on every path through Run with the sink opened, the output sink is
\* closed exactly once, after both codec layers, and each codec layer is
\* finalized exactly once.
C10_EachLayerClosedOnce ==
    (RunReturned /\ sink # "none") =>
        /\ CloseCount("tw") = 1
        /\ CloseCount("gw") = 1
        /\ sink = "file" => CloseCount("w") = 1

\* Position of the first Close call on layer c, 0 when it was never closed.
FirstClose(c) ==
    IF CloseCount(c) = 0 THEN 0
    ELSE CHOOSE k \in 1..Len(closeLog) :
             closeLog[k] = c /\ \A j \in 1..(k - 1) : closeLog[j] # c

\* C11: on every path the tar layer is closed before the gzip layer and the
\* gzip layer before the raw sink (a layer is closed by the first Close call
\* on it), and once a finalize step has returned an error Run returns that
\* error, neither nil nor "no profiles written".
C11_FinalizeOrderedAndFatal ==
    /\ CloseCount("gw") > 0 =>
          (CloseCount("tw") > 0 /\ FirstClose("tw") < FirstClose("gw"))
    /\ CloseCount("w") > 0 =>
          (CloseCount("gw") > 0 /\ FirstClose("gw") < FirstClose("w"))
    /\ finErr # "none" =>
          (runErr = finErr /\ runErr \notin {"nil", "no profiles written"})
    /\ (RunReturned /\ runErr \in {"nil", "no profiles written"}) =>
          (finErr = "none" /\ FirstClose("tw") = 1 /\ FirstClose("gw") = 2
             /\ FirstClose("w") = 3)

\* C11 witness: a profile was archived, tw.Close succeeded, gw.Close failed
\* and Run returned the gzip error to a file sink.
C11_Witness ==
    /\ RunReturned
    /\ successN > 0
    /\ sink = "file"
    /\ finErr = "gw"
    /\ runErr = "gw"
    /\ FirstClose("tw") = 1
    /\ FirstClose("gw") = 2

\* Run is past the drain loop: in a finalize step, at the success check, or
\* returned after them.
PastDrain ==
    \/ pc \in {"twClose", "gwClose", "wClose", "check"}
    \/ pc \in {"returned", "exited"} /\ sink # "none"

\* C12: once the sink is opened Run does not leave the drain loop while a
\* dispatched fetch task has not finished: past the loop the channel is
\* closed and every task has run to its end; a task whose GET has not
\* returned keeps Run in the loop, there being no timeout or cancellation.
C12_NoFinalizeBeforeAllTasksFinish ==
    /\ PastDrain => (closed /\ \A i \in Tasks : task[i] = "done")
    /\ (sink # "none" /\ \E i \in Tasks : task[i] # "done") =>
          pc \in {"drain", "readAll", "writeHeader", "writeBody"}

\* C12 witness: one profile is archived and its task finished, the other
\* task's GET has not returned, and Run waits in the drain loop.
C12_Witness ==
    /\ pc = "drain"
    /\ successN = 1
    /\ \E i \in Tasks : task[i] = "get"
    /\ \E i \in Tasks : task[i] = "done"

\* The positions in the channel history of the results task i sent.
ResultsOf(i) == {k \in 1..Len(results) : results[k].idx = i}

\* C13: each fetch task ends in one of three ways.  A transport failure
\* sends no result.  A status other than 200 closes the body at once, unread,
\* and sends no result.  A 200 makes the task send one result, pending or
\* delivered, that carries the full specifier (query included) and the body
\* still open: not closed, and unread until Run has received it.
C13_ThreeFetchOutcomes ==
    \A i \in Tasks :
        /\ outcome[i] = "none" => (ResultsOf(i) = {} /\ bodyClosed[i] = 0)
        /\ outcome[i] = "neterr" =>
              /\ ResultsOf(i) = {}
              /\ task[i] \in {"deferred", "done"}
              /\ bodyClosed[i] = 0 /\ ~bodyRead[i]
        /\ outcome[i] = "status" =>
              /\ ResultsOf(i) = {}
              /\ task[i] \in {"deferred", "done"}
              /\ bodyClosed[i] = 1 /\ ~bodyRead[i]
        /\ outcome[i] = "ok" =>
              /\ bodyClosed[i] = 0
              /\ IF task[i] = "send"
                   THEN ResultsOf(i) = {} /\ ~bodyRead[i]
                   ELSE /\ task[i] \in {"deferred", "done"}
                        /\ Cardinality(ResultsOf(i)) = 1
                        /\ \A k \in ResultsOf(i) :
                              results[k].name = ProfileNames[i]

\* C13 witness: a specifier with a query was fetched with 200 and its result
\* delivered under the full name, while another task got a status other than
\* 200 and closed its body.
C13_Witness ==
    \E i, j \in Tasks :
        /\ outcome[i] = "ok"
        /\ \E k \in ResultsOf(i) :
              /\ results[k].name = ProfileNames[i]
              /\ results[k].name # ParseProfileName(ProfileNames[i]).segment
        /\ outcome[j] = "status"
        /\ bodyClosed[j] = 1

\* The archive holds an entry, complete or not, made from task i's result.
HasEntry(i) == \E k \in 1..Len(archive) : archive[k].of = i

\* The archive holds a complete entry made from task i's result.
HasCompleteEntry(i) ==
    \E k \in 1..Len(archive) : archive[k].of = i /\ archive[k].complete

\* A step of Run in which ioutil.ReadAll on the received body failed.
ReadFailedStep ==
    /\ pc = "readAll"
    /\ pc' # "readAll"
    /\ ~bodyRead'[cur.idx]

\* C14: a failed read of a result's body is not fatal.  The step writes no
\* archive entry, leaves the success count alone, logs the failure under the
\* result's name and puts Run back at the channel receive; and when Run
\* returns with the sink opened every result that was sent has been received,
\* the unread ones have no entry, and (no tar write error) the read ones have
\* a complete entry.
C14_ReadFailureSkipsEntryOnly ==
    /\ [][ReadFailedStep =>
            /\ pc' = "drain"
            /\ archive' = archive
            /\ successN' = successN
            /\ runErr' = "none"
            /\ log' = Append(log, LogLine(cur.name, "archive failed"))]_vars
    /\ [](RunReturned /\ sink # "none" =>
            \A i \in Tasks :
                outcome[i] = "ok" =>
                    /\ Received(i)
                    /\ ~bodyRead[i] => ~HasEntry(i)
                    /\ (bodyRead[i] /\ ~tarErr) => HasCompleteEntry(i))

\* C14 witness: the first result received could not be read, the second was
\* received after it and archived, and Run returned nil with one success.
C14_Witness ==
    /\ runErr = "nil"
    /\ successN = 1
    /\ Len(results) = 2
    /\ ~bodyRead[results[1].idx]
    /\ ~HasEntry(results[1].idx)
    /\ HasCompleteEntry(results[2].idx)

\* The archive and compression writer state of Run.
writerVars == <<archive, buf, cur, successN, closeLog, tarErr, finErr, sink>>

\* The state of the fetch goroutines and of the closer.
fetchVars == <<task, outcome, req, body, bodyClosed, wg, closer, closed>>

\* A step that changes the archive or codec state is a step of Run that
\* leaves every fetch goroutine where it is.
WriterStepsAreRunSteps ==
    (<<archive, successN, closeLog, tarErr, finErr, sink, buf>>'
        # <<archive, successN, closeLog, tarErr, finErr, sink, buf>>)
    => (fetchVars' = fetchVars /\ pc' # pc)

\* Once fetchProfiles has started the goroutines, a step of a fetch goroutine
\* or of the closer that is not the hand-over of a result leaves the writer
\* state and Run alone.
FetchStepsLeaveWriter ==
    (/\ pc \notin {"ParseFlags", "fetchProfiles"}
     /\ <<outcome, req, body, bodyClosed, wg, closer, closed>>'
          # <<outcome, req, body, bodyClosed, wg, closer, closed>>)
    => (writerVars' = writerVars /\ pc' = pc)

\* Only the last entry can lack its body, and then the tar writer has failed
\* or Run is at the tw.Write of that entry; a complete entry holds the body of
\* the result it was made from; no result has two entries.
EntriesInSequence ==
    /\ \A k \in 1..Len(archive) :
          /\ k < Len(archive) => archive[k].complete
          /\ ~archive[k].complete =>
                (tarErr \/ (pc = "writeBody" /\ archive[k].of = cur.idx))
          /\ archive[k].complete => archive[k].data = body[archive[k].of]
    /\ \A k \in 1..Len(archive) :
          \A j \in 1..Len(archive) : archive[k].of = archive[j].of => k = j

\* C15: archive writes are serialized.  Only the last entry can lack its
\* body, and then Run is at the tw.Write of that very entry or the tar writer
\* has failed, so a header is followed by its own body before the next header;
\* each complete entry holds the body of the result it was made from; and a
\* step that changes the archive or codec state is a step of Run that leaves
\* every fetch task where it is, while a step of a fetch task or of the closer
\* leaves the writer state alone (the receive alone moves both: it hands the
\* result over).
C15_ArchiveWritesSerialized ==
    /\ []EntriesInSequence
    /\ [][WriterStepsAreRunSteps /\ FetchStepsLeaveWriter]_vars

\* C15 witness: the header of one entry is written and its body is not yet,
\* while another fetch task stands at its send with the next result.
C15_Witness ==
    /\ pc = "writeBody"
    /\ Len(archive) = 1
    /\ ~archive[1].complete
    /\ \E i \in Tasks : task[i] = "send"

\* Number of complete entries in the archive.
CompleteEntries == Cardinality({k \in 1..Len(archive) : archive[k].complete})

\* C16: the size in every entry's header is the length of the body that was
\* buffered for it, the body written is that whole buffer, byte for byte, and
\* this includes the empty body: its entry has size 0, is complete and is
\* counted like any other.
C16_HeaderSizeIsBodyLength ==
    /\ \A k \in 1..Len(archive) :
          /\ archive[k].size = Len(body[archive[k].of])
          /\ bodyRead[archive[k].of]
          /\ archive[k].complete =>
                /\ archive[k].data = body[archive[k].of]
                /\ Len(archive[k].data) = archive[k].size
    /\ pc = "writeBody" =>
          /\ archive[Len(archive)].size = Len(buf)
          /\ buf = body[cur.idx]
    /\ pc \in {"drain", "readAll", "writeHeader"} =>
          successN = CompleteEntries

\* C16 witness: the only profile archived has an empty body; its entry is
\* complete with size 0 and Run returned nil with one success.
C16_Witness ==
    /\ runErr = "nil"
    /\ successN = 1
    /\ Len(archive) = 1
    /\ archive[1].complete
    /\ archive[1].size = 0
    /\ archive[1].data = <<>>
    /\ body[archive[1].of] = <<>>

\* The start-of-fetch lines of the log, in log order.
FetchingLines == SelectSeq(log, LAMBDA l : l.msg = "fetching")

\* The OK lines of the log, in log order.
OKLines == SelectSeq(log, LAMBDA l : l.msg = "OK")

\* The complete entries of the archive, in archive order.
CompleteSeq == SelectSeq(archive, LAMBDA e : e.complete)

\* Position in the channel history of the result of task i.
ArrivalOf(i) == CHOOSE k \in 1..Len(results) : results[k].idx = i

\* C17: with -v, fetchProfiles logs one "fetching" line per profile it has
\* dispatched, under the profile's segment and in the order of the input
\* list, all of them by the time it returns, whatever the fetch goroutines do
\* meanwhile; without -v it logs none.  The lines about results come as the
\* results do: an error line of a task after that profile's fetching line
\* (and possibly before a later profile's), the OK lines in the order the
\* results arrived on the channel.
C17_FetchingLinesInInputOrder ==
    /\ Len(FetchingLines) = (IF Verbose THEN di - 1 ELSE 0)
    /\ \A k \in 1..Len(FetchingLines) :
          FetchingLines[k].tag = ParseProfileName(ProfileNames[k]).segment
    /\ (pc \notin {"ParseFlags", "fetchProfiles"} /\ task # <<>>) => di = N + 1
    /\ Verbose =>
          /\ \A e \in 1..Len(log) :
                log[e].msg \in {"error", "error: status", "OK"} =>
                    \E f \in 1..(e - 1) :
                        log[f].msg = "fetching" /\ log[f].tag = log[e].tag
          /\ Len(OKLines) = Len(CompleteSeq)
          /\ \A k \in 1..Len(OKLines) :
                OKLines[k].tag =
                    ParseProfileName(ProfileNames[CompleteSeq[k].of]).segment
    /\ \A k \in 1..Len(archive) :
          \A j \in 1..Len(archive) :
              k < j => ArrivalOf(archive[k].of) < ArrivalOf(archive[j].of)

\* C17 witness: verbose run of two different profiles; the first task's
\* error line lies between the two fetching lines, and the second profile's
\* OK line follows.
C17_Witness ==
    /\ Verbose
    /\ Len(log) = 4
    /\ log[1].msg = "fetching"
    /\ log[2].msg = "error"
    /\ log[2].tag = log[1].tag
    /\ log[3].msg = "fetching"
    /\ log[3].tag # log[1].tag
    /\ log[4].msg = "OK"
    /\ log[4].tag = log[3].tag

\* C18: when the sink has been opened (and every GET returns, the scheduler
\* being fair), every task standing at its send has its result received, the
\* channel is closed, every task ends, and Run returns and the process
\* exits: senders, closer and receiver do not deadlock.
C18_RunTerminates ==
    /\ \A i \in 1..MaxProfiles :
          (i \in Tasks /\ sink # "none" /\ task[i] = "send")
              ~> (i \in Tasks /\ Received(i) /\ ResultsOf(i) # {})
    /\ (sink # "none")
          ~> (/\ closed
              /\ \A i \in Tasks : task[i] = "done"
              /\ RunReturned
              /\ pc = "exited")

\* C18 witness: the sink was opened, two results were sent and received, the
\* channel was closed after both tasks ended, and Run returned.
C18_Witness ==
    /\ sink # "none"
    /\ Len(results) = 2
    /\ closed
    /\ \A i \in Tasks : task[i] = "done"
    /\ RunReturned
    /\ pc = "exited"

\* C19: no fetch task stays blocked: in every run, the run in which Run
\* returns on the os.Create error included, a task whose GET returned 200
\* gets past its send and ends, and the results channel is closed.
C19_NoTaskBlockedForever ==
    \A i \in 1..MaxProfiles :
        (i \in Tasks /\ outcome[i] = "ok")
            ~> (i \in Tasks /\ task[i] = "done" /\ closed)

\* Run is in the drain loop or in finalization.
InDrainOrFinalize ==
    pc \in {"drain", "readAll", "writeHeader", "writeBody",
            "twClose", "gwClose", "wClose", "check"}

\* The entries whose header is written, whose body is not, and whose tw.Write
\* is no longer pending.
FailedEntries ==
    {k \in 1..Len(archive) :
        ~archive[k].complete /\ ~(pc = "writeBody" /\ k = Len(archive))}

\* Number of results whose GET returned 200 and whose body was read.
SuccessfulFetches == Cardinality({i \in Tasks : Fetched(i)})

\* C20: in the drain loop and in finalization the success count is the
\* number of complete entries in the archive and is at most the number of
\* successful fetches, and an entry whose body write failed is not counted
\* and is not left in the archive.
C20_SuccessCountExactNoPartialEntry ==
    InDrainOrFinalize =>
        /\ successN = CompleteEntries
        /\ successN <= SuccessfulFetches
        /\ FailedEntries = {}

\* C20 (amended): whenever Run is at the receive of the drain loop, in
\* finalization or has returned with the sink opened, the success count is
\* the number of complete entries and is at most the number of successful
\* fetches.  An entry whose body write failed is not counted, but its header
\* stays in the archive as the last entry: the tar writer has failed, no
\* later entry is written, tw.Close fails and Run returns that error with
\* the output file left in place.
C20_SuccessCountExact ==
    ((InDrainOrFinalize /\ pc \notin {"readAll", "writeHeader", "writeBody"})
        \/ (RunReturned /\ sink # "none")) =>
        /\ successN = CompleteEntries
        /\ successN <= SuccessfulFetches
        /\ FailedEntries # {} =>
              /\ FailedEntries = {Len(archive)}
              /\ tarErr
              /\ pc \notin {"gwClose", "wClose", "check"}
              /\ RunReturned => (runErr = "tw" /\ (sink = "file" => fileExists))

\* C20 witness: one profile archived, the second one's header written and
\* its tw.Write failed; Run counted one success, returned the tar error and
\* the file holds both headers.
C20_Witness ==
    /\ RunReturned
    /\ runErr = "tw"
    /\ sink = "file"
    /\ fileExists
    /\ Len(archive) = 2
    /\ archive[1].complete
    /\ ~archive[2].complete
    /\ successN = 1

====
